---- MODULE Spec2Model ----
(***************************************************************************)
(* Model of the "Explode Document" extension: the top-level declaration    *)
(* classifier isTopLevelDeclaration and the command explodeDocument, which *)
(* parses the active document, plans one target per top-level declaration, *)
(* sorts the plan bottom-to-top and asks the editor to move each target to *)
(* a new file.                                                             *)
(*                                                                         *)
(* A parsed file is a record [text, nodes]: text is the sequence of its    *)
(* characters, nodes the syntax nodes in preorder, each with the index of  *)
(* its parent (SourceFile for a direct child of the root) and its offsets. *)
(***************************************************************************)
EXTENDS Integers, Sequences, FiniteSets, TLC

VARIABLES
    pc,            \* position of the explodeDocument invocation
    editor,        \* vscode.window.activeTextEditor: NoEditor or the document's languageId
    diagTries,     \* loop counter i of waitForTypeScriptReady
    parsed,        \* ts.createSourceFile has run
    sf,            \* the parsed source file
    targets,       \* the targets array
    idx,           \* number of targets the consumer loop has started
    selection,     \* editor.selection, a pair of positions
    buffer,        \* the live document: the snapshot offsets of its characters
    notes,         \* user-facing notifications, in order
    progress,      \* the withProgress notification: "none", "open", "closed"
    usedProvider,  \* local usedProvider of the current iteration
    provCalls,     \* vscode.executeCodeAction invocations of the current iteration
    fallbackCalls, \* editor.action.codeAction invocations of the current iteration
    failed,        \* rejections observed in the current iteration
    logged,        \* failure lines logged in the current iteration
    queried,       \* some vscode.executeCodeActionProvider query was issued
    attempted,     \* indices of the targets the loop has started, in order
    escaped,       \* an exception left explodeDocument
    probe,         \* last direct call of isTopLevelDeclaration: <<node index, result>>
    cancelRequested \* the user asked to cancel the run while the loop was working

vars == <<pc, editor, diagTries, parsed, sf, targets, idx, selection, buffer, notes,
          progress, usedProvider, provCalls, fallbackCalls, failed, logged, queried,
          attempted, escaped, probe, cancelRequested>>

----------------------------------------------------------------------------
(* Bounds *)

MaxNodes == 2

----------------------------------------------------------------------------
(* TypeScript's NodeFlags bits read by the classifier, and bitwise and.     *)
(* Since TypeScript 5.2 (using declarations) NodeFlags.BlockScoped is       *)
(* Let | Const | Using; `await using` sets Const | Using.                   *)

NodeFlagsLet == 1
NodeFlagsConst == 2
NodeFlagsUsing == 4
NodeFlagsBlockScoped == 7

RECURSIVE BitAnd(_, _)
BitAnd(a, b) ==
    IF a = 0 \/ b = 0 THEN 0
    ELSE (a % 2) * (b % 2) + 2 * BitAnd(a \div 2, b \div 2)

SourceFile == 0

DeclarationKinds ==
    {"ClassDeclaration", "InterfaceDeclaration", "EnumDeclaration",
     "FunctionDeclaration", "TypeAliasDeclaration"}

----------------------------------------------------------------------------
(* The classifier *)

isTopLevelDeclaration_NoParentCheck(node, sourceFile) ==
    IF node.kind \in DeclarationKinds THEN TRUE
    ELSE IF node.kind = "VariableStatement"
    THEN LET flags == node.flags
             block == \/ BitAnd(flags, NodeFlagsConst) # 0
                      \/ BitAnd(flags, NodeFlagsLet) # 0
                      \/ BitAnd(flags, NodeFlagsBlockScoped) # 0
         IN  block /\ Len(node.decls) > 0
    ELSE FALSE

isTopLevelDeclaration(node, sourceFile) ==
    IF node.parent # sourceFile THEN FALSE
    ELSE IF node.kind \in DeclarationKinds THEN TRUE
    ELSE IF node.kind = "VariableStatement"
    THEN LET flags == node.flags
             block == \/ BitAnd(flags, NodeFlagsConst) # 0
                      \/ BitAnd(flags, NodeFlagsLet) # 0
                      \/ BitAnd(flags, NodeFlagsBlockScoped) # 0
         IN  block /\ Len(node.decls) > 0
    ELSE FALSE

----------------------------------------------------------------------------
(* Parsed files.  ts.createSourceFile is a collaborator; the files the     *)
(* model parses are every tree of at most MaxNodes nodes over NodeShapes,  *)
(* laid out as text, and the workspace file of the end-to-end test.        *)
(* A node's text is: one character of leading trivia, one keyword          *)
(* character, its name (one character) when it has one, two characters per *)
(* declarator, its children, and one closing character.  Intermediate      *)
(* nodes (Block, MethodDeclaration, ...) between a container and a nested  *)
(* statement may be elided: they are never of a declaration kind.          *)

VarFlags == {0, NodeFlagsLet, NodeFlagsConst, NodeFlagsUsing, NodeFlagsConst + NodeFlagsUsing}

\* declarator lists: TRUE is a simple identifier binding, FALSE a destructuring pattern
DeclaratorLists == {<< >>, <<TRUE>>, <<FALSE>>, <<TRUE, TRUE>>}

NodeShapes ==
    {[kind |-> k, flags |-> 0, named |-> TRUE, decls |-> << >>,
      container |-> k \in {"ClassDeclaration", "FunctionDeclaration"}] : k \in DeclarationKinds}
    \cup
    {[kind |-> k, flags |-> 0, named |-> FALSE, decls |-> << >>, container |-> TRUE] :
        k \in {"ClassDeclaration", "FunctionDeclaration"}}
    \cup
    {[kind |-> "VariableStatement", flags |-> f, named |-> FALSE, decls |-> d,
      container |-> FALSE] : f \in VarFlags, d \in DeclaratorLists}
    \cup
    {[kind |-> "ExpressionStatement", flags |-> 0, named |-> FALSE, decls |-> << >>,
      container |-> FALSE],
     [kind |-> "Block", flags |-> 0, named |-> FALSE, decls |-> << >>, container |-> TRUE]}

RECURSIVE AncestorsOrSelf(_, _)
AncestorsOrSelf(p, i) ==
    IF i = SourceFile THEN {SourceFile} ELSE {i} \cup AncestorsOrSelf(p, p[i])

\* parent arrays of the preorder listings of trees with n nodes
ParentArrays(n) ==
    {p \in [1..n -> 0..n] :
        \A i \in 1..n : /\ p[i] < i
                        /\ i > 1 => p[i] \in AncestorsOrSelf(p, i - 1)}

HeaderLen(sh) == 2 + (IF sh.named THEN 1 ELSE 0) + 2 * Len(sh.decls)

RECURSIVE SubtreeLen(_, _, _, _), SumSubtrees(_, _, _, _)
SubtreeLen(n, p, s, i) ==
    HeaderLen(s[i]) + 1 + SumSubtrees(n, p, s, {j \in (i + 1)..n : p[j] = i})
SumSubtrees(n, p, s, S) ==
    IF S = {} THEN 0
    ELSE LET x == CHOOSE y \in S : TRUE
         IN  SubtreeLen(n, p, s, x) + SumSubtrees(n, p, s, S \ {x})

RECURSIVE NodePos(_, _, _, _)
NodePos(n, p, s, i) ==
    (IF p[i] = SourceFile THEN 0 ELSE NodePos(n, p, s, p[i]) + HeaderLen(s[p[i]]))
    + SumSubtrees(n, p, s, {j \in 1..(i - 1) : p[j] = p[i]})

NameChars == <<"A", "B", "C", "D", "E", "F", "G", "H">>

KeywordChar(sh) ==
    CASE sh.kind = "ClassDeclaration" -> "c"
      [] sh.kind = "InterfaceDeclaration" -> "i"
      [] sh.kind = "EnumDeclaration" -> "e"
      [] sh.kind = "FunctionDeclaration" -> "f"
      [] sh.kind = "TypeAliasDeclaration" -> "t"
      [] sh.kind = "VariableStatement" ->
            (CASE sh.flags = 0 -> "v"
               [] sh.flags = NodeFlagsLet -> "l"
               [] sh.flags = NodeFlagsConst -> "k"
               [] OTHER -> "u")
      [] sh.kind = "Block" -> "{"
      [] OTHER -> "x"

\* the character at index k of node i's header
HeaderChar(p, s, i, k) ==
    LET base == IF s[i].named THEN 3 ELSE 2
    IN  IF k = 0 THEN (IF p[i] = SourceFile THEN "\n" ELSE " ")
        ELSE IF k = 1 THEN KeywordChar(s[i])
        ELSE IF k < base THEN NameChars[i]
        ELSE IF (k - base) % 2 = 1 THEN "="
        ELSE IF ~s[i].decls[(k - base) \div 2 + 1] THEN "["
        ELSE IF k = base THEN NameChars[i] ELSE "z"

MakeFile(n, p, s) ==
    LET pos(i) == NodePos(n, p, s, i)
        end(i) == NodePos(n, p, s, i) + SubtreeLen(n, p, s, i)
        total == SumSubtrees(n, p, s, {j \in 1..n : p[j] = SourceFile})
        owner(o) == CHOOSE i \in 1..n :
                        \/ pos(i) <= o /\ o < pos(i) + HeaderLen(s[i])
                        \/ o = end(i) - 1
        char(o) == LET i == owner(o)
                   IN  IF o = end(i) - 1
                       THEN (IF s[i].container THEN "}" ELSE ";")
                       ELSE HeaderChar(p, s, i, o - pos(i))
        decl(i, d) == LET b == pos(i) + 2 + 2 * (d - 1)
                      IN  [isId |-> s[i].decls[d], start |-> b, end |-> b + 2,
                           nameStart |-> b, nameEnd |-> b + 1]
    IN  [text |-> [k \in 1..total |-> char(k - 1)],
         nodes |-> [i \in 1..n |->
            [parent |-> p[i], kind |-> s[i].kind, flags |-> s[i].flags,
             hasName |-> s[i].named,
             nameStart |-> IF s[i].named THEN pos(i) + 2 ELSE 0,
             nameEnd |-> IF s[i].named THEN pos(i) + 3 ELSE 0,
             start |-> pos(i) + 1, end |-> end(i),
             decls |-> [d \in 1..Len(s[i].decls) |-> decl(i, d)]]]]

FilesOfSize(n, shapes) ==
    {MakeFile(n, ps[1], ps[2]) :
        ps \in {x \in ParentArrays(n) \X [1..n -> shapes] :
                  \A i \in 1..n : x[1][i] # SourceFile => x[2][x[1][i]].container}}

GeneratedFiles(shapes) == UNION {FilesOfSize(n, shapes) : n \in 0..MaxNodes}

\* one shape for every path through visit: a named and an unnamed declaration,
\* var, let, const and using statements with no, one or two declarators, bound
\* to an identifier or a pattern, and two statements that are no declaration
PlanShapes ==
    {sh \in NodeShapes :
        \/ sh.kind = "ClassDeclaration" /\ sh.named
        \/ sh.kind = "FunctionDeclaration" /\ ~sh.named
        \/ sh.kind \in {"ExpressionStatement", "Block"}
        \/ /\ sh.kind = "VariableStatement"
           /\ <<sh.flags, sh.decls>> \in
                {<<0, <<TRUE>>>>, <<NodeFlagsConst, <<TRUE>>>>, <<NodeFlagsLet, <<FALSE>>>>,
                 <<NodeFlagsConst, <<TRUE, TRUE>>>>, <<NodeFlagsConst, << >>>>,
                 <<NodeFlagsUsing, <<TRUE>>>>}}

Node(parent, kind, flags, start, end, name, decls) ==
    [parent |-> parent, kind |-> kind, flags |-> flags, hasName |-> name # << >>,
     nameStart |-> IF name # << >> THEN name[1] ELSE 0,
     nameEnd |-> IF name # << >> THEN name[2] ELSE 0,
     start |-> start, end |-> end, decls |-> decls]

Declarator(start, end, nameStart, nameEnd) ==
    [isId |-> TRUE, start |-> start, end |-> end, nameStart |-> nameStart,
     nameEnd |-> nameEnd]

\* index.ts of the end-to-end workspace, as the parser returns it (top-level statements)
ExampleText ==
    <<
       "\n", " ", " ", " ", " ", "e", "x", "p", "o", "r", "t", " ", "c", "l", "a", "s",
       "s", " ", "F", "o", "o", " ", "{", " ", "n", " ", "=", " ", "1", " ", "}", "\n",
       " ", " ", " ", " ", "e", "x", "p", "o", "r", "t", " ", "i", "n", "t", "e", "r",
       "f", "a", "c", "e", " ", "B", "a", "z", " ", "{", " ", "x", ":", " ", "n", "u",
       "m", "b", "e", "r", " ", "}", "\n", " ", " ", " ", " ", "e", "x", "p", "o", "r",
       "t", " ", "e", "n", "u", "m", " ", "K", " ", "{", " ", "A", " ", "=", " ", "1",
       ",", " ", "B", " ", "=", " ", "2", " ", "}", "\n", " ", " ", " ", " ", "e", "x",
       "p", "o", "r", "t", " ", "f", "u", "n", "c", "t", "i", "o", "n", " ", "b", "a",
       "r", "(", ")", " ", "{", " ", "r", "e", "t", "u", "r", "n", " ", "4", "2", " ",
       "}", "\n", " ", " ", " ", " ", "e", "x", "p", "o", "r", "t", " ", "c", "o", "n",
       "s", "t", " ", "Q", "u", "x", " ", "=", " ", "7", "\n", " ", " "
    >>

ExampleFile ==
    [text |-> ExampleText,
     nodes |-> <<Node(SourceFile, "ClassDeclaration", 0, 5, 31, <<18, 21>>, << >>),
                 Node(SourceFile, "InterfaceDeclaration", 0, 36, 70, <<53, 56>>, << >>),
                 Node(SourceFile, "EnumDeclaration", 0, 75, 105, <<87, 88>>, << >>),
                 Node(SourceFile, "FunctionDeclaration", 0, 110, 145, <<126, 129>>, << >>),
                 Node(SourceFile, "VariableStatement", NodeFlagsConst, 150, 170, << >>,
                      <<Declarator(163, 170, 163, 166)>>)>>]

\* the file of the unit test "rejects nested declarations inside functions or classes"
NestedText ==
    <<
       "\n", " ", " ", " ", " ", " ", " ", "f", "u", "n", "c", "t", "i", "o", "n", " ",
       "o", "u", "t", "e", "r", "(", ")", " ", "{", "\n", " ", " ", " ", " ", " ", " ",
       " ", " ", "c", "l", "a", "s", "s", " ", "I", "n", "n", "e", "r", " ", "{", "}",
       "\n", " ", " ", " ", " ", " ", " ", " ", " ", "c", "o", "n", "s", "t", " ", "X",
       " ", "=", " ", "1", ";", "\n", " ", " ", " ", " ", " ", " ", "}", "\n", " ", " ",
       " ", " ", " ", " ", "c", "l", "a", "s", "s", " ", "C", " ", "{", "\n", " ", " ",
       " ", " ", " ", " ", " ", " ", "m", "e", "t", "h", "o", "d", "(", ")", " ", "{",
       " ", "c", "o", "n", "s", "t", " ", "Y", " ", "=", " ", "2", " ", "}", "\n", " ",
       " ", " ", " ", " ", " ", "}", "\n", " ", " ", " ", " "
    >>

NestedFile ==
    [text |-> NestedText,
     nodes |-> <<Node(SourceFile, "FunctionDeclaration", 0, 7, 77, <<16, 21>>, << >>),
                 Node(1, "Block", 0, 24, 77, << >>, << >>),
                 Node(2, "ClassDeclaration", 0, 34, 48, <<40, 45>>, << >>),
                 Node(2, "VariableStatement", NodeFlagsConst, 57, 69, << >>,
                      <<Declarator(63, 68, 63, 64)>>),
                 Node(SourceFile, "ClassDeclaration", 0, 84, 134, <<90, 91>>, << >>),
                 Node(5, "MethodDeclaration", 0, 102, 126, <<102, 108>>, << >>),
                 Node(6, "Block", 0, 111, 126, << >>, << >>),
                 Node(7, "VariableStatement", NodeFlagsConst, 113, 124, << >>,
                      <<Declarator(119, 124, 119, 120)>>)>>]

\* the files the classifier is called on, and the documents explodeDocument parses
Files == GeneratedFiles(NodeShapes) \cup {ExampleFile, NestedFile}

Documents == GeneratedFiles(PlanShapes) \cup {ExampleFile, NestedFile}

TopLevel(f) == {i \in 1..Len(f.nodes) : f.nodes[i].parent = SourceFile}

----------------------------------------------------------------------------
(* The planner: visit, push and the sort of explodeDocument *)

Anonymous == <<"<", "a", "n", "o", "n", "y", "m", "o", "u", "s", ">">>
VarPlaceholder == <<"<", "v", "a", "r", ">">>

\* node.getText(sf) of the range [start, end)
getText(f, start, end) == SubSeq(f.text, start + 1, end)

push_Swapped(start, end, label, kind) ==
    [start |-> end, end |-> start, label |-> label, kind |-> kind]

push(start, end, label, kind) ==
    [start |-> start, end |-> end, label |-> label, kind |-> kind]

RECURSIVE ChildrenFrom(_, _, _)
ChildrenFrom(f, n, i) ==
    IF i > Len(f.nodes) THEN << >>
    ELSE (IF f.nodes[i].parent = n THEN <<i>> ELSE << >>) \o ChildrenFrom(f, n, i + 1)

\* ts.forEachChild: the children of node n (SourceFile for the root), in source order
forEachChild(f, n) == ChildrenFrom(f, n, 1)

\* visit reading the last declarator in place of declarations[0]
TargetOf_LastDeclarator(f, n) ==
    LET node == f.nodes[n]
    IN  IF node.kind # "VariableStatement"
        THEN <<push(IF node.hasName THEN node.nameStart ELSE node.start,
                    IF node.hasName THEN node.nameEnd ELSE node.end,
                    IF node.hasName THEN getText(f, node.nameStart, node.nameEnd)
                                    ELSE Anonymous,
                    node.kind)>>
        ELSE IF Len(node.decls) > 0
        THEN LET last == node.decls[Len(node.decls)]
             IN  IF last.isId
                 THEN <<push(last.nameStart, last.nameEnd,
                             getText(f, last.nameStart, last.nameEnd), "Variable")>>
                 ELSE <<push(last.start, last.end, VarPlaceholder, "Variable")>>
        ELSE << >>

\* what visit pushes for a node the classifier accepts
TargetOf(f, n) ==
    LET node == f.nodes[n]
    IN  IF node.kind # "VariableStatement"
        THEN <<push(IF node.hasName THEN node.nameStart ELSE node.start,
                    IF node.hasName THEN node.nameEnd ELSE node.end,
                    IF node.hasName THEN getText(f, node.nameStart, node.nameEnd)
                                    ELSE Anonymous,
                    node.kind)>>
        ELSE IF Len(node.decls) > 0
        THEN LET first == node.decls[1]
             IN  IF first.isId
                 THEN <<push(first.nameStart, first.nameEnd,
                             getText(f, first.nameStart, first.nameEnd), "Variable")>>
                 ELSE <<push(first.start, first.end, VarPlaceholder, "Variable")>>
        ELSE << >>

RECURSIVE visit(_, _), visitEach(_, _)
visit(f, n) ==
    IF ~isTopLevelDeclaration(f.nodes[n], SourceFile)
    THEN visitEach(f, forEachChild(f, n))
    ELSE TargetOf(f, n)
visitEach(f, ids) ==
    IF ids = << >> THEN << >> ELSE visit(f, Head(ids)) \o visitEach(f, Tail(ids))

\* the comparator of targets.sort
compare_Ascending(a, b) == a.start - b.start

compare(a, b) == b.start - a.start

\* Array.prototype.sort is stable: x goes after every element that does not
\* compare greater than it
RECURSIVE InsertSorted(_, _)
InsertSorted(sorted, x) ==
    IF sorted = << >> THEN <<x>>
    ELSE IF compare(Head(sorted), x) <= 0
    THEN <<Head(sorted)>> \o InsertSorted(Tail(sorted), x)
    ELSE <<x>> \o sorted

RECURSIVE SortFrom(_, _)
SortFrom(acc, rest) ==
    IF rest = << >> THEN acc ELSE SortFrom(InsertSorted(acc, Head(rest)), Tail(rest))

sort_Skipped(ts) == ts

sort(ts) == SortFrom(<< >>, ts)

\* targets.length === 0
noTargets_Ignored(ts) == FALSE

noTargets(ts) == Len(ts) = 0

----------------------------------------------------------------------------
(* The document: positions, selection and the move-to-new-file edit *)

Max(S) == CHOOSE x \in S : \A y \in S : y <= x
Min(S) == CHOOSE x \in S : \A y \in S : x <= y

\* the text of the live document
docText(f, buf) == [k \in 1..Len(buf) |-> f.text[buf[k] + 1]]

\* the position of offset o, already clamped, in a text
PositionOf(text, o) ==
    CHOOSE p \in {[line |-> Cardinality(nl),
                   character |-> o - (IF nl = {} THEN 0 ELSE Max(nl))] :
                     nl \in {{k \in 1..o : text[k] = "\n"}}} : TRUE

positionAt_OffByOne(text, offset) ==
    PositionOf(text, Min({Max({offset + 1, 0}), Len(text)}))

\* doc.positionAt: the offset is clamped to the document, then split into line and column
positionAt(text, offset) ==
    PositionOf(text, Min({Max({offset, 0}), Len(text)}))

\* the indices of the line breaks of a text
LineBreaks(text) == {k \in 1..Len(text) : text[k] = "\n"}

\* the offset of a position in a text of length len with line breaks nl: the
\* position is clamped to an existing line and to that line's length
OffsetInLines(len, nl, pos) ==
    LET line == Min({pos.line, Cardinality(nl)})
        ls == IF line = 0 THEN 0
              ELSE CHOOSE k \in nl : Cardinality({j \in nl : j <= k}) = line
        after == {k \in nl : k > ls}
        le == IF after = {} THEN len ELSE Min(after) - 1
    IN  ls + Min({pos.character, le - ls})

\* doc.offsetAt, by which the editor reads a selection
offsetAt(text, pos) ==
    CHOOSE o \in {OffsetInLines(Len(text), nl, pos) : nl \in {LineBreaks(text)}} : TRUE

\* the snapshot offsets of the characters the selection covers in the live document
SelectedOffsets(f, buf, sel) ==
    LET text == docText(f, buf)
    IN  SubSeq(buf, offsetAt(text, sel[1]) + 1, offsetAt(text, sel[2]))

\* the document without the top-level statement that holds the character at offset a
CutStatementAt(f, buf, a) ==
    LET hit == IF a < Len(buf)
               THEN {i \in TopLevel(f) : f.nodes[i].start <= buf[a + 1]
                                         /\ buf[a + 1] < f.nodes[i].end}
               ELSE {}
    IN  IF hit = {} THEN buf
        ELSE LET node == f.nodes[CHOOSE i \in hit : TRUE]
                 Keep(o) == o < node.start \/ o >= node.end
             IN  SelectSeq(buf, Keep)

\* "Move to a new file" applied at the selection: the top-level statement the
\* selection starts in leaves the document
MoveToNewFile(f, buf, sel) ==
    CHOOSE b \in {CutStatementAt(f, buf, a) : a \in {offsetAt(docText(f, buf), sel[1])}} : TRUE

----------------------------------------------------------------------------
(* explodeDocument *)

NoEditor == "<no editor>"

LanguageIds ==
    {"typescript", "typescriptreact", "javascript", "javascriptreact", "json", "plaintext"}

Editors == {NoEditor} \cup LanguageIds

isTSLike_AlsoJson(languageId) ==
    languageId \in {"typescript", "typescriptreact", "javascript", "javascriptreact", "json"}

isTSLike(languageId) ==
    languageId \in {"typescript", "typescriptreact", "javascript", "javascriptreact"}

DiagnosticsTries == 20

\* the sites whose rejection a try/catch of the code handles: tsExt.activate(),
\* the kind query of queryMoveNewFileActions, the provider path of the loop
\* (the no-kind query and vscode.executeCodeAction), executeEditorCodeAction.
\* Every handler logs (e as Error).message: a rejection is taken to carry an
\* Error (any value but null and undefined), as the editor's commands give.
TryCatch_ProviderUncaught(site) == site \in {"activate", "kindQuery", "fallback"}

TryCatch_ActivateUncaught(site) == site \in {"kindQuery", "provider", "fallback"}

TryCatch(site) == site \in {"activate", "kindQuery", "provider", "fallback"}

\* if (usedProvider) {continue;}
skipFallback_Never(used) == FALSE

skipFallback(used) == used

Notify(level, msg) == Append(notes, [level |-> level, msg |-> msg])

EmptyFile == [text |-> << >>, nodes |-> << >>]

Origin == [line |-> 0, character |-> 0]

Init ==
    /\ pc = "idle"
    /\ editor = "unset"
    /\ diagTries = 0
    /\ parsed = FALSE
    /\ sf = EmptyFile
    /\ targets = << >>
    /\ idx = 0
    /\ selection = <<Origin, Origin>>
    /\ buffer = << >>
    /\ notes = << >>
    /\ progress = "none"
    /\ usedProvider = FALSE
    /\ provCalls = 0
    /\ fallbackCalls = 0
    /\ failed = 0
    /\ logged = 0
    /\ queried = FALSE
    /\ attempted = << >>
    /\ escaped = FALSE
    /\ probe = <<0, FALSE>>
    /\ cancelRequested = FALSE

\* explodeDocument up to its first await: the refusal checks
Invoke ==
    /\ pc = "idle"
    /\ \E e \in Editors, tsExt \in BOOLEAN :
        /\ editor' = e
        /\ IF e = NoEditor
           THEN /\ notes' = Notify("error", "Explode Document: No active editor")
                /\ pc' = "done"
           ELSE IF ~isTSLike(e)
           THEN /\ notes' = Notify("error", "Explode Document: TS or JS files only")
                /\ pc' = "done"
           ELSE /\ notes' = notes
                /\ pc' = IF tsExt THEN "activate" ELSE "diagnostics"
    /\ UNCHANGED <<diagTries, parsed, sf, targets, idx, selection, buffer, progress,
                   usedProvider, provCalls, fallbackCalls, failed, logged, queried,
                   attempted, escaped, probe, cancelRequested>>

\* waitForTypeScriptReady: tsExt.activate() resolves or rejects
ActivateReturn ==
    /\ pc = "activate"
    /\ \E ok \in BOOLEAN :
        IF ok \/ TryCatch("activate")
        THEN pc' = "diagnostics" /\ escaped' = escaped
        ELSE pc' = "done" /\ escaped' = TRUE
    /\ UNCHANGED <<editor, diagTries, parsed, sf, targets, idx, selection, buffer, notes,
                   progress, usedProvider, provCalls, fallbackCalls, failed, logged,
                   queried, attempted, probe, cancelRequested>>

\* waitForTypeScriptReady: one round of the diagnostics loop
DiagnosticsCheck ==
    /\ pc = "diagnostics"
    /\ diagTries < DiagnosticsTries
    /\ \E defined \in BOOLEAN :
        IF defined \/ diagTries + 1 = DiagnosticsTries
        THEN pc' = "parse" /\ diagTries' = 0
        ELSE pc' = pc /\ diagTries' = diagTries + 1
    /\ UNCHANGED <<editor, parsed, sf, targets, idx, selection, buffer, notes, progress,
                   usedProvider, provCalls, fallbackCalls, failed, logged, queried,
                   attempted, escaped, probe, cancelRequested>>

\* parse, walk, empty check, sort, withProgress
Plan ==
    /\ pc = "parse"
    /\ \E f \in Documents :
        LET ts == visitEach(f, forEachChild(f, SourceFile))
        IN  /\ parsed' = TRUE
            /\ sf' = f
            /\ buffer' = [k \in 1..Len(f.text) |-> k - 1]
            /\ IF noTargets(ts)
               THEN /\ targets' = ts
                    /\ notes' = Notify("info", "Explode Document: No top-level declarations found")
                    /\ progress' = progress
                    /\ pc' = "done"
               ELSE /\ targets' = sort(ts)
                    /\ notes' = notes
                    /\ progress' = "open"
                    /\ pc' = "loop"
    /\ UNCHANGED <<editor, diagTries, idx, selection, usedProvider, provCalls,
                   fallbackCalls, failed, logged, queried, attempted, escaped, probe,
                   cancelRequested>>

\* top of one loop iteration: selection, reveal, progress report, the kind query
BeginTarget ==
    /\ pc = "loop"
    /\ idx < Len(targets)
    /\ LET t == targets[idx + 1]
           text == docText(sf, buffer)
       IN  selection' = <<positionAt(text, t.start), positionAt(text, t.end)>>
    /\ idx' = idx + 1
    /\ attempted' = Append(attempted, idx + 1)
    /\ usedProvider' = FALSE
    /\ provCalls' = 0
    /\ fallbackCalls' = 0
    /\ failed' = 0
    /\ logged' = 0
    /\ queried' = TRUE
    /\ pc' = "query1"
    /\ UNCHANGED <<editor, diagTries, parsed, sf, targets, buffer, notes, progress,
                   escaped, probe, cancelRequested>>

\* the rest of an iteration after a collaborator call returned: next is the next
\* await ("query2", "exec", "fallback"), "loop" for the next iteration, or
\* "throw" when the rejection is handled nowhere
Continue(next, rejected, buf, used) ==
    /\ pc' = IF next = "throw" THEN "done" ELSE next
    /\ escaped' = (escaped \/ next = "throw")
    /\ progress' = IF next = "throw" THEN "closed" ELSE progress
    /\ provCalls' = provCalls + (IF next = "exec" THEN 1 ELSE 0)
    /\ fallbackCalls' = fallbackCalls + (IF next = "fallback" THEN 1 ELSE 0)
    /\ failed' = failed + (IF rejected THEN 1 ELSE 0)
    /\ logged' = logged + (IF rejected /\ next # "throw" THEN 1 ELSE 0)
    /\ buffer' = buf
    /\ usedProvider' = used
    /\ UNCHANGED <<editor, diagTries, parsed, sf, targets, idx, selection, notes,
                   queried, attempted, probe, cancelRequested>>

\* after the provider path ended without a throw
AfterProvider(used) == IF skipFallback(used) THEN "loop" ELSE "fallback"

\* after the provider path threw
AfterProviderThrow(used) == IF TryCatch("provider") THEN AfterProvider(used) ELSE "throw"

\* queryMoveNewFileActions: the query with the kind returns
Query1Return ==
    /\ pc = "query1"
    /\ \E r \in {"actions", "empty", "reject"} :
        Continue(CASE r = "actions" -> "exec"
                   [] r = "empty" -> "query2"
                   [] r = "reject" -> IF TryCatch("kindQuery") THEN "query2"
                                      ELSE AfterProviderThrow(usedProvider),
                 r = "reject", buffer, usedProvider)

\* queryMoveNewFileActions: the query without a kind returns
Query2Return ==
    /\ pc = "query2"
    /\ \E r \in {"actions", "empty", "reject"} :
        Continue(CASE r = "actions" -> "exec"
                   [] r = "empty" -> AfterProvider(usedProvider)
                   [] r = "reject" -> AfterProviderThrow(usedProvider),
                 r = "reject", buffer, usedProvider)

\* vscode.executeCodeAction returns
ExecReturn ==
    /\ pc = "exec"
    /\ \E r \in {"ok", "reject"} :
        IF r = "ok"
        THEN Continue(AfterProvider(TRUE), FALSE,
                      MoveToNewFile(sf, buffer, selection), TRUE)
        ELSE Continue(AfterProviderThrow(usedProvider), TRUE, buffer, usedProvider)

\* executeEditorCodeAction: editor.action.codeAction returns
FallbackReturn ==
    /\ pc = "fallback"
    /\ \E r \in {"applied", "nothing", "reject"} :
        Continue(IF r = "reject" /\ ~TryCatch("fallback") THEN "throw" ELSE "loop",
                 r = "reject",
                 IF r = "applied" THEN MoveToNewFile(sf, buffer, selection) ELSE buffer,
                 usedProvider)

\* the loop is over: withProgress resolves, the final message
Finish ==
    /\ pc = "loop"
    /\ idx = Len(targets)
    /\ progress' = "closed"
    /\ notes' = Notify("info", "Explode Document finished. See the Output panel for logs")
    /\ pc' = "done"
    /\ UNCHANGED <<editor, diagTries, parsed, sf, targets, idx, selection, buffer,
                   usedProvider, provCalls, fallbackCalls, failed, logged, queried,
                   attempted, escaped, probe, cancelRequested>>

Next ==
    \/ Invoke
    \/ ActivateReturn
    \/ DiagnosticsCheck
    \/ Plan
    \/ BeginTarget
    \/ Query1Return
    \/ Query2Return
    \/ ExecReturn
    \/ FallbackReturn
    \/ Finish

Spec == Init /\ [][Next]_vars

\* every await of explodeDocument is on a collaborator call that returns or rejects
FairSpec == Spec /\ WF_vars(Next)

\* The user asks to cancel while a target is being processed. withProgress is
\* opened with cancellable: false and its callback takes only `progress`: the
\* notification offers no cancel button, no CancellationToken is read, and no
\* statement of the loop looks at the request.
RequestCancel ==
    /\ pc \in {"query1", "query2", "exec", "fallback"}
    /\ ~cancelRequested
    /\ cancelRequested' = TRUE
    /\ UNCHANGED <<pc, editor, diagTries, parsed, sf, targets, idx, selection, buffer,
                   notes, progress, usedProvider, provCalls, fallbackCalls, failed,
                   logged, queried, attempted, escaped, probe>>

NextCancel == Next \/ RequestCancel

SpecCancel == Init /\ [][NextCancel]_vars

----------------------------------------------------------------------------
(* The classifier called directly on the nodes of a parsed file *)

InitClassify ==
    /\ pc = "unit"
    /\ editor = "unset"
    /\ diagTries = 0
    /\ parsed = TRUE
    /\ sf \in Files
    /\ targets = << >>
    /\ idx = 0
    /\ selection = <<Origin, Origin>>
    /\ buffer = << >>
    /\ notes = << >>
    /\ progress = "none"
    /\ usedProvider = FALSE
    /\ provCalls = 0
    /\ fallbackCalls = 0
    /\ failed = 0
    /\ logged = 0
    /\ queried = FALSE
    /\ attempted = << >>
    /\ escaped = FALSE
    /\ probe = <<0, FALSE>>
    /\ cancelRequested = FALSE

Classify ==
    /\ pc = "unit"
    /\ \E n \in 1..Len(sf.nodes) :
        probe' = <<n, isTopLevelDeclaration(sf.nodes[n], SourceFile)>>
    /\ UNCHANGED <<pc, editor, diagTries, parsed, sf, targets, idx, selection, buffer,
                   notes, progress, usedProvider, provCalls, fallbackCalls, failed,
                   logged, queried, attempted, escaped, cancelRequested>>

NextClassify == Classify

SpecClassify == InitClassify /\ [][NextClassify]_vars

----------------------------------------------------------------------------
(* Properties *)

AcceptedLanguages == {"typescript", "typescriptreact", "javascript", "javascriptreact"}

\* the direct children of the root that the classifier accepts
Accepted(f) == {n \in TopLevel(f) : isTopLevelDeclaration(f.nodes[n], SourceFile)}

InIteration == pc \in {"query1", "query2", "exec", "fallback"}

Refused == editor = NoEditor \/ (editor \in LanguageIds /\ editor \notin AcceptedLanguages)

\* C1: a node the classifier accepts is a direct child of the source file; a node
\* nested at any depth is rejected whatever its kind.
C1_DirectChild ==
    /\ \A n \in 1..Len(sf.nodes) :
          isTopLevelDeclaration(sf.nodes[n], SourceFile) => sf.nodes[n].parent = SourceFile
    /\ probe[1] # 0 /\ probe[2] => sf.nodes[probe[1]].parent = SourceFile

\* a class declaration two levels below the root was classified, and rejected
C1_Witness ==
    /\ probe[1] # 0
    /\ sf.nodes[probe[1]].kind = "ClassDeclaration"
    /\ sf.nodes[probe[1]].parent # SourceFile
    /\ sf.nodes[sf.nodes[probe[1]].parent].parent # SourceFile
    /\ probe[2] = FALSE

\* C2: a direct child of the source file is accepted if and only if it is a class,
\* interface, enum, function or type-alias declaration, or a variable statement
\* declared with let or const that has at least one declarator.
C2_KindsAndLetConst ==
    (probe[1] # 0 /\ sf.nodes[probe[1]].parent = SourceFile) =>
        LET node == sf.nodes[probe[1]]
        IN  probe[2] <=> \/ node.kind \in DeclarationKinds
                         \/ /\ node.kind = "VariableStatement"
                            /\ node.flags \in {NodeFlagsLet, NodeFlagsConst}
                            /\ Len(node.decls) > 0

\* C3: the plan has one target per accepted direct child, each inside its node,
\* with start offsets non-increasing; the example file gives Qux, bar, K, Baz, Foo.
C3_PlanLengthAndOrder ==
    parsed =>
        /\ Len(targets) = Cardinality(Accepted(sf))
        /\ \A n \in Accepted(sf) :
              Cardinality({i \in 1..Len(targets) :
                              /\ sf.nodes[n].start <= targets[i].start
                              /\ targets[i].end <= sf.nodes[n].end}) = 1
        /\ \A i, j \in 1..Len(targets) : i < j => targets[i].start >= targets[j].start
        /\ sf = ExampleFile =>
              [i \in 1..Len(targets) |-> targets[i].label]
                 = << <<"Q", "u", "x">>, <<"b", "a", "r">>, <<"K">>,
                      <<"B", "a", "z">>, <<"F", "o", "o">> >>

\* the plan of the example file is built and the loop is about to start
C3_Witness == sf = ExampleFile /\ pc = "loop" /\ idx = 0 /\ Len(targets) = 5

\* C4: every target's range lies inside the source text with start <= end, and the
\* ranges of two distinct targets do not overlap.
C4_RangesInBoundsDisjoint ==
    parsed =>
        /\ \A i \in 1..Len(targets) :
              /\ 0 <= targets[i].start
              /\ targets[i].start <= targets[i].end
              /\ targets[i].end <= Len(sf.text)
        /\ \A i, j \in 1..Len(targets) :
              i # j => \/ targets[i].end <= targets[j].start
                       \/ targets[j].end <= targets[i].start

\* a plan with a pattern-bound variable target and an unnamed declaration's target
C4_Witness ==
    /\ parsed
    /\ Len(targets) = 2
    /\ \E i, j \in 1..Len(targets) :
          targets[i].label = VarPlaceholder /\ targets[j].label = Anonymous

\* C5: when a target is processed, its stored offsets select in the live document
\* exactly the characters they selected in the snapshot, and every target not yet
\* processed starts strictly below every target processed so far.
C5_OffsetsStayValid ==
    InIteration =>
        LET t == targets[idx]
        IN  /\ SelectedOffsets(sf, buffer, selection)
                 = [k \in 1..(t.end - t.start) |-> t.start + k - 1]
            /\ \A i \in 1..idx, j \in (idx + 1)..Len(targets) :
                  targets[j].start < targets[i].start

\* the second target is processed after the first one's declaration left the document
C5_Witness ==
    /\ pc = "query1"
    /\ idx >= 2
    /\ Len(buffer) < Len(sf.text)

\* C6: with no active editor or a document of another language, the invocation ends
\* at once with exactly one error notification: no parse, no plan, no query, no
\* refactor invocation, no progress UI, no exception.
C6_Refusal ==
    Refused =>
        /\ pc = "done"
        /\ Len(notes) = 1
        /\ notes[1].level = "error"
        /\ ~parsed
        /\ targets = << >>
        /\ idx = 0
        /\ ~queried
        /\ provCalls = 0
        /\ fallbackCalls = 0
        /\ progress = "none"
        /\ ~escaped

\* the command was run on a plain-text document and has returned
C6_Witness == pc = "done" /\ editor = "plaintext" /\ Len(notes) = 1

\* C7: a document with no node the classifier accepts ends with exactly one
\* informational notification and the loop is never entered.
C7_EmptyPlan ==
    (parsed /\ \A n \in 1..Len(sf.nodes) : ~isTopLevelDeclaration(sf.nodes[n], SourceFile)) =>
        /\ pc = "done"
        /\ notes = <<[level |-> "info",
                      msg |-> "Explode Document: No top-level declarations found"]>>
        /\ idx = 0
        /\ attempted = << >>
        /\ selection = <<Origin, Origin>>
        /\ ~queried
        /\ provCalls = 0
        /\ fallbackCalls = 0
        /\ progress = "none"
        /\ ~escaped

\* a document of a var statement and one more statement was parsed: nothing to move
C7_Witness ==
    /\ pc = "done"
    /\ parsed
    /\ Len(sf.nodes) = 2
    /\ \E n \in TopLevel(sf) : sf.nodes[n].kind = "VariableStatement"
    /\ targets = << >>

C9_AtMostOneApply == provCalls + fallbackCalls <= 1

\* C9 as amended: a target is given at most one provider execution and at most one
\* fallback invocation; the fallback is issued only when the provider path applied
\* nothing, a second attempt only after the first one failed, and no target is
\* started twice.
C9_AtMostOneFallback ==
    /\ provCalls <= 1
    /\ fallbackCalls <= 1
    /\ fallbackCalls = 1 => ~usedProvider
    /\ provCalls + fallbackCalls = 2 => failed >= 1
    /\ \A i, j \in 1..Len(attempted) : i < j => attempted[i] < attempted[j]

\* the provider's action was executed and rejected, and the fallback is running
C9_Witness == pc = "fallback" /\ provCalls = 1 /\ fallbackCalls = 1

\* C10: every invocation ends, with exactly one notification of the kind its
\* outcome calls for, and no exception leaves the function.
TerminalOutcome ==
    pc = "done" =>
        /\ ~escaped
        /\ Len(notes) = 1
        /\ notes[1].level = IF Refused THEN "error" ELSE "info"
        /\ ~Refused =>
              notes[1].msg = IF targets = << >>
                             THEN "Explode Document: No top-level declarations found"
                             ELSE "Explode Document finished. See the Output panel for logs"

C11_NestedTestAssertion ==
    (sf = NestedFile /\ probe[1] \in TopLevel(sf)) => probe[2] = FALSE

\* C12: once cancellation has been requested during the work on target i, no
\* further target is started, the moves already applied stay in place, and the run
\* ends with its normal outcome: one informational message, no exception.
C12_CooperativeCancellation ==
    [][cancelRequested =>
          /\ attempted' = attempted
          /\ \A k \in 1..Len(buffer') : \E j \in 1..Len(buffer) : buffer[j] = buffer'[k]
          /\ pc' = "done" => (~escaped' /\ Len(notes') = 1 /\ notes'[1].level = "info")]_vars

\* the targets of the plan that lie inside node n of the parsed file
TargetsWithin(n) ==
    {i \in 1..Len(targets) :
        sf.nodes[n].start <= targets[i].start /\ targets[i].end <= sf.nodes[n].end}

\* target t selects the range [start, end) and is labelled with its text
SpanWithText(t, start, end) ==
    /\ t.start = start
    /\ t.end = end
    /\ Len(t.label) = end - start
    /\ \A k \in 1..Len(t.label) : t.label[k] = sf.text[start + k]

\* target t selects the range [start, end) and carries the given label
SpanWithLabel(t, start, end, label) == t.start = start /\ t.end = end /\ t.label = label

\* C13: every accepted node yields exactly one target and nothing below it yields
\* any: for a class, interface, enum, function or type alias the range and text of
\* its name, or the whole node and "<anonymous>" when it has no name; for a
\* variable statement the first declarator only, the range and text of its
\* identifier, or the whole declarator and "<var>" when it binds a pattern.
C13_NameSpanAndLabel ==
    (parsed /\ pc # "unit") =>
        /\ Len(targets) = Cardinality(Accepted(sf))
        /\ \A n \in Accepted(sf) :
              /\ Cardinality(TargetsWithin(n)) = 1
              /\ LET node == sf.nodes[n]
                     t == targets[CHOOSE i \in TargetsWithin(n) : TRUE]
                 IN  IF node.kind # "VariableStatement"
                     THEN /\ t.kind = node.kind
                          /\ IF node.hasName
                             THEN SpanWithText(t, node.nameStart, node.nameEnd)
                             ELSE SpanWithLabel(t, node.start, node.end, Anonymous)
                     ELSE /\ t.kind = "Variable"
                          /\ IF node.decls[1].isId
                             THEN SpanWithText(t, node.decls[1].nameStart,
                                               node.decls[1].nameEnd)
                             ELSE SpanWithLabel(t, node.decls[1].start, node.decls[1].end,
                                                VarPlaceholder)

\* a let or const statement with two declarators was planned
C13_TwoDeclarators ==
    /\ parsed /\ pc = "loop"
    /\ \E n \in Accepted(sf) :
          sf.nodes[n].kind = "VariableStatement" /\ Len(sf.nodes[n].decls) = 2

\* a plan with an "<anonymous>" target and a "<var>" target
C13_Witness ==
    /\ parsed /\ pc = "loop"
    /\ \E i, j \in 1..Len(targets) :
          targets[i].label = Anonymous /\ targets[j].label = VarPlaceholder

====
